---- MODULE Spec2Model ----
(***************************************************************************)
(* Model of the sketch cut-out pipeline (src/imageProcessor.ts) and of the *)
(* App component that drives it (src/unnamed/part_000).                    *)
(*                                                                         *)
(* A pixel buffer (ImageData.data, a flat RGBA byte array) is modelled as  *)
(* a function from the pixel index  y * width + x  to the pixel's          *)
(* <<r, g, b, a>> tuple, so data[idx * 4] of the source is data[idx][1].   *)
(***************************************************************************)
EXTENDS Integers, Sequences, FiniteSets, TLC

(***************************************************************************)
(* Bounds of the model.                                                    *)
(***************************************************************************)
\* images of the pipeline specification have width * height <= MaxPixels
MaxPixels == 9
\* images of the traversal-order specification
OrdPixels == 6
\* images of the seed-order specification
SeedPixels == 8
\* ring images: the outer rectangle of the ring is at most RingW x RingH
RingW == 7
RingH == 5
\* file selections in one run of the App
MaxUploads == 3

VARIABLES
  width, height,      \* canvas.width, canvas.height
  imageData,          \* originalImageData.data
  binaryMask,         \* createMask's result
  components,         \* findObjectContours' components array
  mainFrame,          \* index (1-based) of mainFrame in components, 0 if none
  objectMask,         \* the mask findObjectContours returns
  filledMask,         \* objectMask.data as the floodFill calls rewrite it
  seeds,              \* the corner seeds not yet filled from
  round,              \* how many times the four seeds have been applied
  resultData,         \* resultData.data
  pc,                 \* position in ImageProcessor.process
  order,              \* traversal order of the two explicit-stack loops
  state,              \* App: the ProcessingState
  readers,            \* App: FileReader loads in flight
  calls,              \* App: ImageProcessor.process promises in flight
  uploads             \* App: number of file selections so far

vars == <<width, height, imageData, binaryMask, components, mainFrame,
          objectMask, filledMask, seeds, round, resultData, pc, order,
          state, readers, calls, uploads>>

pipeVars == <<width, height, imageData, binaryMask, components, mainFrame,
              objectMask, filledMask, seeds, round, resultData, pc, order>>

appVars == <<state, readers, calls, uploads>>

(***************************************************************************)
(* Colours.                                                                *)
(***************************************************************************)
Black == <<0, 0, 0, 255>>
White == <<255, 255, 255, 255>>
fillColor == <<255, 0, 0, 255>>
Transparent == <<0, 0, 0, 0>>

threshold == 100

\* setPixelData(data, i, color)
setPixelData(data, i, color) == [data EXCEPT ![i] = color]

\* luminance = 0.2126 r + 0.7152 g + 0.0722 b, kept exact by scaling with
\* 10000 (the inputs of the model stay away from a luminance of exactly
\* 100, where the source's floating-point sum may round either way)
luminance10000(px) == 2126 * px[1] + 7152 * px[2] + 722 * px[3]

createMask(data) ==
  [i \in DOMAIN data |->
     IF luminance10000(data[i]) < threshold * 10000 THEN Black ELSE White]

(***************************************************************************)
(* Traversal order.  The source pops the last element of its stack and     *)
(* visits the neighbours in the order right, left, down, up.               *)
(***************************************************************************)
CodeOrder == [pop |-> "last", nbr |-> <<1, 2, 3, 4>>]

PopIndex(stack, ord) == IF ord.pop = "last" THEN Len(stack) ELSE 1

RemoveAt(seq, k) == SubSeq(seq, 1, k - 1) \o SubSeq(seq, k + 1, Len(seq))

neighbors(x, y, ord) ==
  LET n == << <<x + 1, y>>, <<x - 1, y>>, <<x, y + 1>>, <<x, y - 1>> >>
  IN  [k \in 1..4 |-> n[ord.nbr[k]]]

\* mutant: the lower bounds are tested with > instead of >=
InBoundsOffByOne(p, w, h) == p[1] > 0 /\ p[1] < w /\ p[2] > 0 /\ p[2] < h

InBounds(p, w, h) == p[1] >= 0 /\ p[1] < w /\ p[2] >= 0 /\ p[2] < h

(***************************************************************************)
(* findObjectContours, first half: connected component labeling.           *)
(***************************************************************************)
Min2(a, b) == IF a < b THEN a ELSE b
Max2(a, b) == IF a > b THEN a ELSE b

\* mutant: the loop over the neighbours stops after its first push
RECURSIVE labelLoopFirstOnly(_, _, _, _, _, _)
labelLoopFirstOnly(data, w, h, ord, stack, acc) ==
  IF Len(stack) = 0 THEN acc
  ELSE
    LET k    == PopIndex(stack, ord)
        c    == stack[k]
        rest == RemoveAt(stack, k)
        all  == SelectSeq(neighbors(c[1], c[2], ord),
                   LAMBDA n : /\ InBounds(n, w, h)
                              /\ data[n[2] * w + n[1]][1] = 0
                              /\ (n[2] * w + n[1]) \notin acc.visited)
        fresh == IF Len(all) = 0 THEN all ELSE <<all[1]>>
    IN  labelLoopFirstOnly(data, w, h, ord, rest \o fresh,
          [visited |-> acc.visited \cup {fresh[j][2] * w + fresh[j][1] : j \in 1..Len(fresh)},
           pixels  |-> Append(acc.pixels, c),
           minX    |-> Min2(acc.minX, c[1]),
           minY    |-> Min2(acc.minY, c[2]),
           maxX    |-> Max2(acc.maxX, c[1]),
           maxY    |-> Max2(acc.maxY, c[2])])

\* the while loop over the stack of one component
RECURSIVE labelLoop(_, _, _, _, _, _)
labelLoop(data, w, h, ord, stack, acc) ==
  IF Len(stack) = 0 THEN acc
  ELSE
    LET k    == PopIndex(stack, ord)
        c    == stack[k]
        rest == RemoveAt(stack, k)
        fresh == SelectSeq(neighbors(c[1], c[2], ord),
                   LAMBDA n : /\ InBounds(n, w, h)
                              /\ data[n[2] * w + n[1]][1] = 0
                              /\ (n[2] * w + n[1]) \notin acc.visited)
    IN  labelLoop(data, w, h, ord, rest \o fresh,
          [visited |-> acc.visited \cup {fresh[j][2] * w + fresh[j][1] : j \in 1..Len(fresh)},
           pixels  |-> Append(acc.pixels, c),
           minX    |-> Min2(acc.minX, c[1]),
           minY    |-> Min2(acc.minY, c[2]),
           maxX    |-> Max2(acc.maxX, c[1]),
           maxY    |-> Max2(acc.maxY, c[2])])

\* the row-major scan
RECURSIVE labelScan(_, _, _, _, _, _, _)
labelScan(data, w, h, ord, idx, visited, comps) ==
  IF idx >= w * h THEN comps
  ELSE IF data[idx][1] = 0 /\ idx \notin visited
  THEN LET r == labelLoop(data, w, h, ord, << <<idx % w, idx \div w>> >>,
                  [visited |-> visited \cup {idx}, pixels |-> <<>>,
                   minX |-> w, minY |-> h, maxX |-> -1, maxY |-> -1])
       IN  labelScan(data, w, h, ord, idx + 1, r.visited,
             Append(comps, [pixels |-> r.pixels, minX |-> r.minX, minY |-> r.minY,
                            maxX |-> r.maxX, maxY |-> r.maxY]))
  ELSE labelScan(data, w, h, ord, idx + 1, visited, comps)

labelComponents(data, w, h, ord) == labelScan(data, w, h, ord, 0, {}, <<>>)

(***************************************************************************)
(* findObjectContours, second half: the main frame and what it contains.   *)
(***************************************************************************)
area(comp) == (comp.maxX - comp.minX) * (comp.maxY - comp.minY)

\* mutant: area >= maxArea, which keeps the last component of the largest area
RECURSIVE pickMainFrameLast(_, _, _, _)
pickMainFrameLast(comps, i, main, maxArea) ==
  IF i > Len(comps) THEN main
  ELSE IF area(comps[i]) >= maxArea
       THEN pickMainFrameLast(comps, i + 1, i, area(comps[i]))
       ELSE pickMainFrameLast(comps, i + 1, main, maxArea)

RECURSIVE pickMainFrame(_, _, _, _)
pickMainFrame(comps, i, main, maxArea) ==
  IF i > Len(comps) THEN main
  ELSE IF area(comps[i]) > maxArea
       THEN pickMainFrame(comps, i + 1, i, area(comps[i]))
       ELSE pickMainFrame(comps, i + 1, main, maxArea)

selectMainFrame(comps) == pickMainFrame(comps, 1, 1, -1)

\* centerX = minX + (maxX - minX) / 2 is an integer or a half; the model
\* keeps twice its value
centerX2(comp) == 2 * comp.minX + (comp.maxX - comp.minX)
centerY2(comp) == 2 * comp.minY + (comp.maxY - comp.minY)

\* mutant: the upper sides of the frame are exclusive
centerInsideExclusive(comp, frame) ==
  /\ centerX2(comp) >= 2 * frame.minX /\ centerX2(comp) < 2 * frame.maxX
  /\ centerY2(comp) >= 2 * frame.minY /\ centerY2(comp) < 2 * frame.maxY

centerInside(comp, frame) ==
  /\ centerX2(comp) >= 2 * frame.minX /\ centerX2(comp) <= 2 * frame.maxX
  /\ centerY2(comp) >= 2 * frame.minY /\ centerY2(comp) <= 2 * frame.maxY

\* the indices of objectComponents
objectComponents(comps, main) ==
  {main} \cup {i \in 1..Len(comps) : i # main /\ centerInside(comps[i], comps[main])}

\* mutant: newMask.data.fill(255) is left out
newMaskUnfilled(w, h) == [i \in 0..(w * h - 1) |-> <<0, 0, 0, 0>>]

newMask(w, h) == [i \in 0..(w * h - 1) |-> <<255, 255, 255, 255>>]

paintComponents(comps, keep, w, h) ==
  LET painted == UNION {{comps[i].pixels[j][2] * w + comps[i].pixels[j][1] :
                             j \in 1..Len(comps[i].pixels)} : i \in keep}
  IN  [i \in 0..(w * h - 1) |-> IF i \in painted THEN Black ELSE newMask(w, h)[i]]

buildObjectMask(comps, w, h) ==
  IF Len(comps) = 0 THEN newMask(w, h)
  ELSE paintComponents(comps, objectComponents(comps, selectMainFrame(comps)), w, h)

(***************************************************************************)
(* floodFill.                                                              *)
(***************************************************************************)
\* a popped pixel that floodFill's loop paints: inside the image and white
Fillable(data, w, h, p) ==
  /\ InBounds(p, w, h)
  /\ data[p[2] * w + p[1]][1] = 255
  /\ data[p[2] * w + p[1]][2] = 255
  /\ data[p[2] * w + p[1]][3] = 255

\* mutant: a pixel outside the image ends the loop (break for continue)
RECURSIVE fillLoopBreak(_, _, _, _, _)
fillLoopBreak(data, w, h, ord, stack) ==
  LET ks == {k \in 1..Len(stack) :
               ~InBounds(stack[k], w, h) \/ Fillable(data, w, h, stack[k])}
  IN  IF ks = {} THEN data
      ELSE
        LET k    == IF ord.pop = "last" THEN CHOOSE m \in ks : \A n \in ks : m >= n
                                        ELSE CHOOSE m \in ks : \A n \in ks : m <= n
            p    == stack[k]
            rest == IF ord.pop = "last" THEN SubSeq(stack, 1, k - 1)
                                        ELSE SubSeq(stack, k + 1, Len(stack))
        IN  IF ~InBounds(p, w, h) THEN data
            ELSE fillLoopBreak(setPixelData(data, p[2] * w + p[1], fillColor), w, h, ord,
                               rest \o neighbors(p[1], p[2], ord))

\* The while loop of floodFill.  A pop of a pixel outside the image or of a
\* pixel that is not white changes nothing, so the pops up to and including
\* the next one that paints are taken in one step: that pixel is the last
\* paintable entry of the stack (the first, when the stack is popped at its
\* front), and the entries popped before it are dropped.
RECURSIVE fillLoop(_, _, _, _, _)
fillLoop(data, w, h, ord, stack) ==
  LET ks == {k \in 1..Len(stack) : Fillable(data, w, h, stack[k])}
  IN  IF ks = {} THEN data
      ELSE
        LET k    == IF ord.pop = "last" THEN CHOOSE m \in ks : \A n \in ks : m >= n
                                        ELSE CHOOSE m \in ks : \A n \in ks : m <= n
            p    == stack[k]
            rest == IF ord.pop = "last" THEN SubSeq(stack, 1, k - 1)
                                        ELSE SubSeq(stack, k + 1, Len(stack))
        IN  fillLoop(setPixelData(data, p[2] * w + p[1], fillColor), w, h, ord,
                     rest \o neighbors(p[1], p[2], ord))

\* mutant: the seed is painted without the test of its colour
floodFillNoGuard(data, w, h, startX, startY, ord) ==
  fillLoop(setPixelData(data, startY * w + startX, fillColor), w, h, ord,
           neighbors(startX, startY, ord))

floodFill(data, w, h, startX, startY, ord) ==
  LET startIdx == startY * w + startX
  IN  IF data[startIdx][1] = 0 \/ (data[startIdx][1] = 255 /\ data[startIdx][2] = 0)
      THEN data
      ELSE fillLoop(data, w, h, ord, << <<startX, startY>> >>)

\* the four seeds, in the order of process
cornerSeeds(w, h) == << <<0, 0>>, <<w - 1, 0>>, <<0, h - 1>>, <<w - 1, h - 1>> >>

\* the four floodFill calls of process
fillCorners(data, w, h, ord) ==
  LET s  == cornerSeeds(w, h)
      d1 == floodFill(data, w, h, s[1][1], s[1][2], ord)
      d2 == floodFill(d1, w, h, s[2][1], s[2][2], ord)
      d3 == floodFill(d2, w, h, s[3][1], s[3][2], ord)
  IN  floodFill(d3, w, h, s[4][1], s[4][2], ord)

(***************************************************************************)
(* The compositor of process.                                              *)
(***************************************************************************)
compose(data) ==
  [i \in DOMAIN data |->
     IF data[i][1] = 255 /\ data[i][2] = 0 THEN <<0, 0, 0, 0>>
     ELSE IF data[i][1] = 0 THEN <<0, 0, 0, 255>>
     ELSE <<255, 255, 255, 255>>]

\* stages 2 to 5 of process, from the image data to the result data
runProcess(data, w, h, ord) ==
  compose(fillCorners(
    buildObjectMask(labelComponents(createMask(data), w, h, ord), w, h), w, h, ord))

(***************************************************************************)
(* ImageProcessor.process as a state machine, one step per stage.          *)
(***************************************************************************)
CreateMaskStep ==
  /\ pc = "createMask"
  /\ binaryMask' = createMask(imageData)
  /\ pc' = "findObjectContours"
  /\ UNCHANGED <<width, height, imageData, components, mainFrame, objectMask,
                 filledMask, seeds, round, resultData, order>>
  /\ UNCHANGED appVars

FindObjectContoursStep ==
  /\ pc = "findObjectContours"
  /\ LET comps == labelComponents(binaryMask, width, height, order)
     IN  /\ components' = comps
         /\ mainFrame' = IF Len(comps) = 0 THEN 0 ELSE selectMainFrame(comps)
         /\ objectMask' = buildObjectMask(comps, width, height)
         /\ filledMask' = buildObjectMask(comps, width, height)
  /\ seeds' = cornerSeeds(width, height)
  /\ pc' = "floodFill"
  /\ UNCHANGED <<width, height, imageData, binaryMask, round, resultData, order>>
  /\ UNCHANGED appVars

\* the next floodFill call of process
FloodFillStep ==
  /\ pc = "floodFill"
  /\ seeds # <<>>
  /\ filledMask' = floodFill(filledMask, width, height, Head(seeds)[1], Head(seeds)[2], order)
  /\ seeds' = Tail(seeds)
  /\ pc' = IF Tail(seeds) = <<>> THEN "compose" ELSE "floodFill"
  /\ UNCHANGED <<width, height, imageData, binaryMask, components, mainFrame,
                 objectMask, round, resultData, order>>
  /\ UNCHANGED appVars

ComposeStep ==
  /\ pc = "compose"
  /\ resultData' = compose(filledMask)
  /\ pc' = "done"
  /\ UNCHANGED <<width, height, imageData, binaryMask, components, mainFrame,
                 objectMask, filledMask, seeds, round, order>>
  /\ UNCHANGED appVars

(***************************************************************************)
(* The exterior filler with its seed calls in any order, applied twice.    *)
(***************************************************************************)
FloodFillAnySeed ==
  /\ pc = "floodFill"
  /\ \E k \in 1..Len(seeds) :
       /\ filledMask' = floodFill(filledMask, width, height, seeds[k][1], seeds[k][2], order)
       /\ seeds' = RemoveAt(seeds, k)
       /\ pc' = IF Len(seeds) = 1 /\ round = 2 THEN "compose" ELSE "floodFill"
  /\ UNCHANGED <<width, height, imageData, binaryMask, components, mainFrame,
                 objectMask, round, resultData, order>>
  /\ UNCHANGED appVars

RepeatSeeds ==
  /\ pc = "floodFill"
  /\ seeds = <<>>
  /\ round = 1
  /\ round' = 2
  /\ seeds' = cornerSeeds(width, height)
  /\ UNCHANGED <<width, height, imageData, binaryMask, components, mainFrame,
                 objectMask, filledMask, resultData, pc, order>>
  /\ UNCHANGED appVars

(***************************************************************************)
(* The App component.                                                      *)
(***************************************************************************)
Null == <<>>
Files == {"a", "b"}
\* event.target.files is empty
NoFile == "none"
dataURL(file) == <<"data", file>>
\* what ImageProcessor.process resolves to for src
process(src) == IF src = Null THEN <<"png">> ELSE <<"png", src[2]>>
errorMessage == <<"error">>

initialState ==
  [originalSrc |-> Null, processedSrc |-> Null, isProcessing |-> FALSE, error |-> Null]

\* onFileSelected; the input is disabled while state.isProcessing
onFileSelected ==
  /\ ~state.isProcessing
  /\ uploads < MaxUploads
  /\ \E file \in Files \cup {NoFile} :
       IF file = NoFile
       THEN UNCHANGED appVars
       ELSE /\ state' = [state EXCEPT !.originalSrc = Null, !.processedSrc = Null,
                                       !.error = Null]
            /\ readers' = readers \cup {[id |-> uploads + 1, file |-> file]}
            /\ uploads' = uploads + 1
            /\ UNCHANGED calls
  /\ UNCHANGED pipeVars

\* reader.onload, up to the await
readerOnload ==
  /\ \E r \in readers :
       /\ state' = [state EXCEPT !.originalSrc = dataURL(r.file), !.isProcessing = TRUE]
       /\ calls' = calls \cup {[id |-> r.id, src |-> dataURL(r.file)]}
       /\ readers' = readers \ {r}
  /\ UNCHANGED uploads
  /\ UNCHANGED pipeVars

\* the await of ImageProcessor.process resolves
processResolved ==
  /\ \E c \in calls :
       /\ state' = [state EXCEPT !.processedSrc = process(c.src), !.isProcessing = FALSE]
       /\ calls' = calls \ {c}
  /\ UNCHANGED <<readers, uploads>>
  /\ UNCHANGED pipeVars

\* the await of ImageProcessor.process rejects
processRejected ==
  /\ \E c \in calls :
       /\ state' = [state EXCEPT !.error = errorMessage, !.isProcessing = FALSE]
       /\ calls' = calls \ {c}
  /\ UNCHANGED <<readers, uploads>>
  /\ UNCHANGED pipeVars

\* reset; the button is disabled when neither image is set
reset ==
  /\ state.originalSrc # Null \/ state.processedSrc # Null
  /\ state' = initialState
  /\ UNCHANGED <<readers, calls, uploads>>
  /\ UNCHANGED pipeVars

(***************************************************************************)
(* Initial states.                                                         *)
(***************************************************************************)
\* the two tones of an input image: black on white, dark red on grey, two
\* dark tones, two light tones
TonePairs == { <<Black, White>>, << <<255, 0, 0, 255>>, <<128, 128, 128, 255>> >>,
               <<Black, <<255, 0, 0, 255>> >>, << <<128, 128, 128, 255>>, White>> }
BlackOnWhite == { <<Black, White>> }

Sizes(n) == {s \in (1..n) \X (1..n) : s[1] * s[2] <= n}

AppIdle ==
  /\ state = initialState
  /\ readers = {}
  /\ calls = {}
  /\ uploads = 0

\* process has drawn a decoded image of two tones on the canvas
Loaded(n, tones, orders) ==
  /\ \E s \in Sizes(n) :
       /\ width = s[1]
       /\ height = s[2]
       /\ \E t \in tones, pat \in SUBSET (0..(s[1] * s[2] - 1)) :
            imageData = [i \in 0..(s[1] * s[2] - 1) |-> IF i \in pat THEN t[1] ELSE t[2]]
  /\ order \in orders
  /\ binaryMask = <<>>
  /\ components = <<>>
  /\ mainFrame = 0
  /\ objectMask = <<>>
  /\ filledMask = <<>>
  /\ seeds = <<>>
  /\ round = 1
  /\ resultData = <<>>
  /\ pc = "createMask"

Init == Loaded(MaxPixels, TonePairs, {CodeOrder}) /\ AppIdle

Next == CreateMaskStep \/ FindObjectContoursStep \/ FloodFillStep \/ ComposeStep

Spec == Init /\ [][Next]_vars

(***************************************************************************)
(* The pipeline with its two traversals in another order: which element of *)
(* the stack is popped, and in which order the neighbours are visited.     *)
(***************************************************************************)
Orders ==
  {[pop |-> p, nbr |-> n] :
     p \in {"last", "first"},
     n \in {f \in [1..4 -> 1..4] : \A a \in 1..4 : \A b \in 1..4 : a # b => f[a] # f[b]}}

InitOrder == Loaded(OrdPixels, BlackOnWhite, Orders) /\ AppIdle

SpecOrder == InitOrder /\ [][Next]_vars

(***************************************************************************)
(* The pipeline with the four seed calls in any order and applied twice.   *)
(***************************************************************************)
InitSeeds == Loaded(SeedPixels, BlackOnWhite, {CodeOrder}) /\ AppIdle

NextSeeds ==
  CreateMaskStep \/ FindObjectContoursStep \/ FloodFillAnySeed \/ RepeatSeeds \/ ComposeStep

SpecSeeds == InitSeeds /\ [][NextSeeds]_vars

(***************************************************************************)
(* The App component alone; no pipeline run is modelled beside it.         *)
(***************************************************************************)
InitApp ==
  /\ AppIdle
  /\ width = 1
  /\ height = 1
  /\ imageData = <<>>
  /\ order = CodeOrder
  /\ binaryMask = <<>>
  /\ components = <<>>
  /\ mainFrame = 0
  /\ objectMask = <<>>
  /\ filledMask = <<>>
  /\ seeds = <<>>
  /\ round = 1
  /\ resultData = <<>>
  /\ pc = "idle"

NextApp == onFileSelected \/ readerOnload \/ processResolved \/ processRejected \/ reset

SpecApp == InitApp /\ [][NextApp]_vars

(***************************************************************************)
(* Vocabulary of the properties: pixel sets and 4-connected reachability,  *)
(* stated on pixel indices and independent of the traversals above.        *)
(***************************************************************************)
AllPixels == 0..(width * height - 1)
XOf(i) == i % width
YOf(i) == i \div width
Adjacent4(i, j) ==
  \/ YOf(i) = YOf(j) /\ (XOf(i) - XOf(j) = 1 \/ XOf(j) - XOf(i) = 1)
  \/ XOf(i) = XOf(j) /\ (YOf(i) - YOf(j) = 1 \/ YOf(j) - YOf(i) = 1)

\* the pixels of allowed joined to a pixel of from by a 4-connected path in allowed
RECURSIVE Reach(_, _)
Reach(from, allowed) ==
  LET more == from \cup {j \in allowed : \E i \in from : Adjacent4(i, j)}
  IN  IF more = from THEN from ELSE Reach(more, allowed)

CornerPixels == {0, width - 1, (height - 1) * width, height * width - 1}
BorderPixels ==
  {i \in AllPixels : XOf(i) = 0 \/ XOf(i) = width - 1 \/ YOf(i) = 0 \/ YOf(i) = height - 1}

IsStroke(px) == px = Black
IsInterior(px) == px = White
IsExterior(px) == px = fillColor

StrokeOf(mask) == {i \in AllPixels : IsStroke(mask[i])}
InteriorOf(mask) == {i \in AllPixels : IsInterior(mask[i])}
ExteriorOf(mask) == {i \in AllPixels : IsExterior(mask[i])}

\* findObjectContours has returned and no floodFill call has run yet
Labeled == pc = "floodFill" /\ round = 1 /\ Len(seeds) = 4
Filled == pc \in {"compose", "done"}

MembersOf(c) == {components[c].pixels[j][2] * width + components[c].pixels[j][1] :
                   j \in 1..Len(components[c].pixels)}
ComponentIds == 1..Len(components)

SetMin(S) == CHOOSE m \in S : \A n \in S : m <= n
SetMax(S) == CHOOSE m \in S : \A n \in S : m >= n
BoxOf(c) ==
  LET xs == {XOf(i) : i \in MembersOf(c)}
      ys == {YOf(i) : i \in MembersOf(c)}
  IN  [minX |-> SetMin(xs), maxX |-> SetMax(xs), minY |-> SetMin(ys), maxY |-> SetMax(ys)]
BoxArea(c) == (BoxOf(c).maxX - BoxOf(c).minX) * (BoxOf(c).maxY - BoxOf(c).minY)

\* the centre of c's box lies in the box of f, all four sides inclusive;
\* ((minX + maxX) / 2 is compared after doubling both sides)
CenterWithin(c, f) ==
  /\ 2 * BoxOf(f).minX <= BoxOf(c).minX + BoxOf(c).maxX
  /\ BoxOf(c).minX + BoxOf(c).maxX <= 2 * BoxOf(f).maxX
  /\ 2 * BoxOf(f).minY <= BoxOf(c).minY + BoxOf(c).maxY
  /\ BoxOf(c).minY + BoxOf(c).maxY <= 2 * BoxOf(f).maxY

(***************************************************************************)
(* C1: after the four corner-seeded floodFill calls a pixel is EXTERIOR    *)
(* iff it was INTERIOR in the ObjectMask and a 4-connected path of pixels  *)
(* that were INTERIOR joins it to a corner; every STROKE pixel of the      *)
(* ObjectMask is still STROKE.                                             *)
(***************************************************************************)
C1_ExteriorIffCornerReachable ==
  Filled =>
    LET interior == InteriorOf(objectMask)
        reached  == Reach(CornerPixels \cap interior, interior)
    IN  \A i \in AllPixels :
          /\ IsExterior(filledMask[i]) <=> i \in reached
          /\ IsStroke(objectMask[i]) => IsStroke(filledMask[i])

C1_Witness ==
  /\ pc = "done"
  /\ ExteriorOf(filledMask) # {}
  /\ InteriorOf(filledMask) # {}
  /\ StrokeOf(filledMask) \cap CornerPixels # {}

(***************************************************************************)
(* C2: the components of the labeling pass partition the STROKE pixels of  *)
(* the binary mask: each STROKE pixel is in exactly one component, no      *)
(* other pixel is in any, and two STROKE pixels share a component iff a    *)
(* 4-connected path of STROKE pixels joins them.                           *)
(***************************************************************************)
C2_ComponentsPartitionStrokes ==
  Labeled =>
    LET strokes == StrokeOf(binaryMask)
    IN  /\ \A i \in strokes : Cardinality({c \in ComponentIds : i \in MembersOf(c)}) = 1
        /\ \A c \in ComponentIds : MembersOf(c) \subseteq strokes
        /\ \A c \in ComponentIds : \A i \in MembersOf(c) :
             LET joined == Reach({i}, strokes)
             IN  \A j \in strokes : j \in MembersOf(c) <=> j \in joined

C2_Witness ==
  /\ Labeled
  /\ Len(components) >= 2
  /\ \E c \in ComponentIds : Cardinality(MembersOf(c)) >= 4
  /\ StrokeOf(binaryMask) # AllPixels

(***************************************************************************)
(* C3: when a component exists, a pixel is STROKE in the ObjectMask iff it *)
(* belongs to mainFrame or to a secondary component whose bounding-box     *)
(* centre lies in mainFrame's box (inclusive, half-integers included);     *)
(* every other pixel is INTERIOR.                                          *)
(***************************************************************************)
C3_ObjectMaskIsRetainedSet ==
  (Labeled /\ Len(components) > 0) =>
    \A i \in AllPixels :
      LET kept == \E c \in ComponentIds :
                    i \in MembersOf(c) /\ (c = mainFrame \/ CenterWithin(c, mainFrame))
      IN  /\ IsStroke(objectMask[i]) <=> kept
          /\ ~kept => IsInterior(objectMask[i])

\* a secondary component is retained whose centre lies on the frame's box
C3_Witness ==
  /\ Labeled
  /\ \E c \in ComponentIds :
       /\ c # mainFrame
       /\ CenterWithin(c, mainFrame)
       /\ BoxOf(c).minX + BoxOf(c).maxX = 2 * BoxOf(mainFrame).maxX
       /\ MembersOf(c) \subseteq StrokeOf(objectMask)

(***************************************************************************)
(* C4: in the final output every non-STROKE pixel from which an image      *)
(* border pixel can be reached without crossing a STROKE pixel of the      *)
(* ObjectMask is transparent (only enclosed regions stay opaque white).    *)
(***************************************************************************)
C4_BorderReachableIsTransparent ==
  pc = "done" =>
    LET open      == AllPixels \ StrokeOf(objectMask)
        reachable == Reach(BorderPixels \cap open, open)
    IN  \A i \in reachable : resultData[i] = Transparent

(***************************************************************************)
(* C6: mainFrame maximizes the bounding-box area and is the earliest       *)
(* discovered component of that area, discovery order being the row-major  *)
(* order of the components' first pixels; also when every area is 0.       *)
(***************************************************************************)
C6_MainFrameIsEarliestLargest ==
  (Labeled /\ Len(components) > 0) =>
    /\ mainFrame \in ComponentIds
    /\ \A c \in ComponentIds :
         /\ BoxArea(c) <= BoxArea(mainFrame)
         /\ BoxArea(c) = BoxArea(mainFrame) => mainFrame <= c
    /\ \A c \in ComponentIds : \A d \in ComponentIds :
         c < d => SetMin(MembersOf(c)) < SetMin(MembersOf(d))

\* two components tie at the maximal area, which is above 0
C6_Witness ==
  /\ Labeled
  /\ Len(components) > 0
  /\ BoxArea(mainFrame) > 0
  /\ \E c \in ComponentIds : c > mainFrame /\ BoxArea(c) = BoxArea(mainFrame)

(***************************************************************************)
(* C8: an image with no pixel below the luminance threshold has zero       *)
(* components, every floodFill call of its run has a seed inside the       *)
(* image, and every output pixel is transparent, also for 1xN, Nx1 and 1x1 *)
(* images.                                                                 *)
(***************************************************************************)
NoDarkPixel == \A i \in AllPixels : luminance10000(imageData[i]) >= threshold * 10000

C8_LightImageAllTransparent ==
  (pc # "idle" /\ NoDarkPixel) =>
    /\ pc = "done" => \A i \in AllPixels : resultData[i] = Transparent
    /\ pc = "floodFill" => /\ seeds # <<>>
                           /\ \A k \in 1..Len(seeds) : InBounds(seeds[k], width, height)
    /\ pc \in {"floodFill", "compose", "done"} => Len(components) = 0

C8_Witness ==
  /\ pc = "done"
  /\ NoDarkPixel
  /\ width = 1
  /\ height > 1
  /\ \E i \in AllPixels : imageData[i] # imageData[0]

(***************************************************************************)
(* C7: the four corner seed calls give the same FilledMask in any of their *)
(* 24 orders, applying all four a second time changes no pixel, and a seed *)
(* call whose seed pixel is STROKE or already EXTERIOR changes nothing.    *)
(***************************************************************************)
FirstRoundOver == pc \in {"compose", "done"} \/ (pc = "floodFill" /\ (round = 2 \/ seeds = <<>>))

C7_SeedCallsCompose ==
  /\ FirstRoundOver => filledMask = fillCorners(objectMask, width, height, order)
  /\ pc = "floodFill" =>
       \A k \in 1..4 :
         LET c == cornerSeeds(width, height)[k]
             i == c[2] * width + c[1]
         IN  (IsStroke(filledMask[i]) \/ IsExterior(filledMask[i]))
               => floodFill(filledMask, width, height, c[1], c[2], order) = filledMask

\* both rounds are over, in an order that is not the order of process
C7_Witness ==
  /\ pc = "compose"
  /\ round = 2
  /\ ExteriorOf(filledMask) # {}
  /\ InteriorOf(filledMask) # {}
  /\ StrokeOf(filledMask) \cap CornerPixels # {}
  /\ Cardinality(CornerPixels) = 4

(***************************************************************************)
(* C9: the output is a function of the input buffer alone; popping the     *)
(* stacks elsewhere or visiting the neighbours in another order changes no *)
(* component's pixel set or bounding box and no pixel of the output.       *)
(***************************************************************************)
SameComponent(a, b) ==
  /\ {a.pixels[j] : j \in 1..Len(a.pixels)} = {b.pixels[j] : j \in 1..Len(b.pixels)}
  /\ Len(a.pixels) = Len(b.pixels)
  /\ a.minX = b.minX /\ a.maxX = b.maxX /\ a.minY = b.minY /\ a.maxY = b.maxY

C9_TraversalOrderIrrelevant ==
  /\ Labeled =>
       LET ref == labelComponents(binaryMask, width, height, CodeOrder)
       IN  /\ Len(components) = Len(ref)
           /\ \A c \in 1..Len(ref) : SameComponent(components[c], ref[c])
  /\ pc = "done" => resultData = runProcess(imageData, width, height, CodeOrder)

\* a run in another order, which collected a component's pixels differently
C9_Witness ==
  /\ pc = "done"
  /\ order.pop # "last"
  /\ order.nbr # <<1, 2, 3, 4>>
  /\ \E c \in ComponentIds :
       components[c].pixels # labelComponents(binaryMask, width, height, CodeOrder)[c].pixels
  /\ \E i \in AllPixels : resultData[i] = Transparent
  /\ \E i \in AllPixels : resultData[i] = Black

(***************************************************************************)
(* C10: in the App, whenever isProcessing is false and processedSrc is set,*)
(* originalSrc is set and processedSrc is the result of processing that    *)
(* originalSrc.                                                            *)
(***************************************************************************)
C10_ResultBelongsToOriginal ==
  (~state.isProcessing /\ state.processedSrc # Null) =>
    /\ state.originalSrc # Null
    /\ state.processedSrc = process(state.originalSrc)

(***************************************************************************)
(* Ring images: the only dark pixels are a closed ring one pixel thick,    *)
(* the edge of a rectangle or of a rectangle with a notch cut into its     *)
(* upper side, anywhere in the image; and the 10x10 image whose ring lies  *)
(* on rows and columns 2..7.                                               *)
(***************************************************************************)
RectOf(x0, x1, y0, y1) == (x0..x1) \X (y0..y1)

EdgeOf(R) ==
  {p \in R : \E dx \in -1..1 : \E dy \in -1..1 : <<p[1] + dx, p[2] + dy>> \notin R}

Near(p, q) ==
  \/ p[2] = q[2] /\ (p[1] - q[1] = 1 \/ q[1] - p[1] = 1)
  \/ p[1] = q[1] /\ (p[2] - q[2] = 1 \/ q[2] - p[2] = 1)

RECURSIVE Joined(_, _)
Joined(from, S) ==
  LET more == from \cup {q \in S : \E p \in from : Near(p, q)}
  IN  IF more = from THEN from ELSE Joined(more, S)

\* a closed curve, one pixel thick: connected, each pixel with two neighbours
IsRing(S) ==
  /\ S # {}
  /\ \A p \in S : Cardinality({q \in S : Near(p, q)}) = 2
  /\ Joined({CHOOSE p \in S : TRUE}, S) = S

RingRegions(w, h) ==
  UNION {
    {RectOf(x0, x1, y0, y1)} \cup
    {RectOf(x0, x1, y0, y1) \ RectOf(a, b, y0, y0 + d - 1) :
       a \in x0..x1, b \in x0..x1, d \in 1..(y1 - y0)}
    : x0 \in 0..(w - 1), x1 \in 0..(w - 1), y0 \in 0..(h - 1), y1 \in 0..(h - 1)}

Rings(w, h) ==
  {EdgeOf(R) : R \in {Q \in RingRegions(w, h) : IsRing(EdgeOf(Q)) /\ Q \ EdgeOf(Q) # {}}}

RingLoaded(w, h, ring) ==
  /\ width = w
  /\ height = h
  /\ imageData = [i \in 0..(w * h - 1) |-> IF <<i % w, i \div w>> \in ring THEN Black ELSE White]
  /\ order = CodeOrder
  /\ binaryMask = <<>>
  /\ components = <<>>
  /\ mainFrame = 0
  /\ objectMask = <<>>
  /\ filledMask = <<>>
  /\ seeds = <<>>
  /\ round = 1
  /\ resultData = <<>>
  /\ pc = "createMask"

InitRing ==
  /\ \/ \E w \in 3..RingW : \E h \in 3..RingH : \E ring \in Rings(w, h) : RingLoaded(w, h, ring)
     \/ RingLoaded(10, 10, EdgeOf(RectOf(2, 7, 2, 7)))
  /\ AppIdle

SpecRing == InitRing /\ [][Next]_vars

(***************************************************************************)
(* C5: for an image whose only dark pixels form one closed black ring, one *)
(* pixel thick, the output is opaque black on the ring, opaque white       *)
(* strictly inside it and transparent outside it.                          *)
(***************************************************************************)
RingPixels == StrokeOf(binaryMask)
OutsideRing == Reach(BorderPixels \ RingPixels, AllPixels \ RingPixels)
InsideRing == (AllPixels \ RingPixels) \ OutsideRing

C5_RingCutout ==
  pc = "done" =>
    \A i \in AllPixels :
      /\ i \in RingPixels => resultData[i] = <<0, 0, 0, 255>>
      /\ i \in InsideRing => resultData[i] = <<255, 255, 255, 255>>
      /\ i \in OutsideRing => resultData[i] = <<0, 0, 0, 0>>

\* the same for the rings that are the edge of a rectangle, as in the 10x10 image
RingIsRectangle ==
  LET xs == {XOf(i) : i \in RingPixels}
      ys == {YOf(i) : i \in RingPixels}
  IN  RingPixels =
        {i \in AllPixels :
           /\ XOf(i) \in xs /\ YOf(i) \in ys
           /\ (XOf(i) = SetMin(xs) \/ XOf(i) = SetMax(xs) \/ YOf(i) = SetMin(ys) \/ YOf(i) = SetMax(ys))}

C5_RectangularRingCutout == (pc = "done" /\ RingIsRectangle) => C5_RingCutout

====
